---- MODULE Spec2Model ----
(***************************************************************************)
(* A model of wbpy.py: the World Bank Indicators client (URL builder,      *)
(* paginated fetcher, metadata and country-indicator folds) and the        *)
(* Climate client (instrumental and modelled calls).                       *)
(*                                                                         *)
(* Python strings are sequences of one-character strings, so that          *)
(* concatenation, upper(), lower(), len(), startswith() and str(int) are   *)
(* computed. Python values are records [t, s, n, l] tagged by type.        *)
(* Dictionaries are functions; their iteration order, which Python 2       *)
(* leaves to the hash table, is an input (a sequence listing the keys).    *)
(***************************************************************************)
EXTENDS Integers, Sequences, FiniteSets, TLC

VARIABLES
    pc,             \* where the call stands: "start", a step of a call, "done"
    call,           \* the public call and its arguments
    result,         \* what the call returned, or the exception it raised
    requests,       \* the urls handed to fetch, in order
    server,         \* the pages the server holds
    served,         \* requests of the current pagination answered so far
    url,            \* _get_api_response_as_json: url of the current invocation
    stack,          \* _get_api_response_as_json: the invocations waiting for a page
    retval,         \* _get_api_response_as_json: the value being returned
    todo,           \* get_country_indicators: indicator codes not yet fetched
    country_string, \* get_country_indicators: the country part of the path
    response_data   \* get_country_indicators: the records fetched so far

vars == <<pc, call, result, requests, server, served, url, stack, retval,
          todo, country_string, response_data>>

---------------------------------------------------------------------------
(* Bounds of the model *)

MaxOpts == 2
MaxPages == 3
MaxRecords == 3
MaxLocs == 2
MaxObs == 2

---------------------------------------------------------------------------
(* Strings *)

LowerLetters == <<"a", "b", "c", "d", "e", "f", "g", "h", "i", "j", "k", "l", "m", "n", "o", "p", "q", "r", "s", "t", "u", "v", "w", "x", "y", "z">>
UpperLetters == <<"A", "B", "C", "D", "E", "F", "G", "H", "I", "J", "K", "L", "M", "N", "O", "P", "Q", "R", "S", "T", "U", "V", "W", "X", "Y", "Z">>
DigitChars == <<"0", "1", "2", "3", "4", "5", "6", "7", "8", "9">>

IndexOf(c, seq) ==
    IF \E i \in 1..Len(seq) : seq[i] = c
    THEN CHOOSE i \in 1..Len(seq) : seq[i] = c
    ELSE 0

upper(s) ==
    [i \in 1..Len(s) |->
        LET j == IndexOf(s[i], LowerLetters)
        IN IF j > 0 THEN UpperLetters[j] ELSE s[i]]

lower(s) ==
    [i \in 1..Len(s) |->
        LET j == IndexOf(s[i], UpperLetters)
        IN IF j > 0 THEN LowerLetters[j] ELSE s[i]]

RECURSIVE int_to_str(_)
int_to_str(n) ==
    IF n < 10 THEN <<DigitChars[n + 1]>>
    ELSE int_to_str(n \div 10) \o <<DigitChars[(n % 10) + 1]>>

RECURSIVE join(_, _)
join(sep, parts) ==
    IF Len(parts) = 0 THEN <<>>
    ELSE IF Len(parts) = 1 THEN parts[1]
    ELSE parts[1] \o sep \o join(sep, Tail(parts))

Range(f) == {f[x] : x \in DOMAIN f}

startswith(s, p) == Len(s) >= Len(p) /\ SubSeq(s, 1, Len(p)) = p

---------------------------------------------------------------------------
(* Python values *)

PyStr(s) == [t |-> "str", s |-> s, n |-> 0, l |-> <<>>]
PyInt(n) == [t |-> "int", s |-> <<>>, n |-> n, l |-> <<>>]
PyList(l) == [t |-> "list", s |-> <<>>, n |-> 0, l |-> l]
PyNone == [t |-> "none", s |-> <<>>, n |-> 0, l |-> <<>>]

\* str(x) for a string, a number or None
py_str(v) ==
    CASE v.t = "str" -> v.s
      [] v.t = "int" -> int_to_str(v.n)
      [] OTHER -> <<"N", "o", "n", "e">>

\* dictionaries
dict_update(d, e) ==
    [k \in (DOMAIN d) \cup (DOMAIN e) |-> IF k \in DOMAIN e THEN e[k] ELSE d[k]]

dict_del(d, k) == [x \in (DOMAIN d) \ {k} |-> d[x]]

\* d.items() / d.keys(): the keys of d in the hash table's order
dict_keys(d, order) == SelectSeq(order, LAMBDA k : k \in DOMAIN d)

---------------------------------------------------------------------------
(* Indicators: the URL builder *)

base_url == <<"h", "t", "t", "p", ":", "/", "/", "a", "p", "i", ".", "w", "o", "r", "l", "d", "b", "a", "n", "k", ".", "o", "r", "g", "/">>

fixed_options ==
    [k \in {<<"f", "o", "r", "m", "a", "t">>, <<"p", "e", "r", "_", "p", "a", "g", "e">>} |->
        IF k = <<"f", "o", "r", "m", "a", "t">> THEN PyStr(<<"j", "s", "o", "n">>) ELSE PyStr(<<"1", "0", "0", "0", "0">>)]

banned_options == <<<<"p", "a", "g", "e">>>>

\* mutant: the option names are not lower-cased
lower_keys_skipped(kwargs, order) == kwargs

\* {k.lower(): v for k, v in kwargs.items()}: a later item replaces an
\* earlier one with the same lower-cased name
lower_keys(kwargs, order) ==
    LET items == dict_keys(kwargs, order)
        names == {lower(k) : k \in DOMAIN kwargs}
        last(K) == CHOOSE i \in 1..Len(items) :
                      /\ lower(items[i]) = K
                      /\ \A j \in (i + 1)..Len(items) : lower(items[j]) # K
    IN [K \in names |-> kwargs[items[last(K)]]]

both_topic_and_source(kwargs) ==
    <<"t", "o", "p", "i", "c">> \in DOMAIN kwargs /\ <<"s", "o", "u", "r", "c", "e">> \in DOMAIN kwargs

RECURSIVE del_banned(_, _)
del_banned(kwargs, banned) ==
    IF Len(banned) = 0 THEN kwargs
    ELSE del_banned(IF Head(banned) \in DOMAIN kwargs
                    THEN dict_del(kwargs, Head(banned)) ELSE kwargs,
                    Tail(banned))

\* mutant: the update runs the wrong way round and the caller's values win
fix_options_caller_wins(kwargs) ==
    del_banned(dict_update(fixed_options, kwargs), banned_options)

fix_options(kwargs) == del_banned(dict_update(kwargs, fixed_options), banned_options)

\* mutant: no default for mrv
default_mrv_omitted(kwargs) == kwargs

default_mrv(kwargs) ==
    IF \A key \in {<<"m", "r", "v">>, <<"d", "a", "t", "e">>} : key \notin DOMAIN kwargs
    THEN dict_update(kwargs, [k \in {<<"m", "r", "v">>} |-> PyInt(1)])
    ELSE kwargs

\* mutant: language is prepended first and ends up innermost
path_options_language_first(rest_url, kwargs) ==
    LET r0 == IF <<"l", "a", "n", "g", "u", "a", "g", "e">> \in DOMAIN kwargs
              THEN py_str(kwargs[<<"l", "a", "n", "g", "u", "a", "g", "e">>]) \o <<"/">> \o rest_url
              ELSE rest_url
        r1 == IF <<"s", "o", "u", "r", "c", "e">> \in DOMAIN kwargs
              THEN <<"s", "o", "u", "r", "c", "e", "/">> \o py_str(kwargs[<<"s", "o", "u", "r", "c", "e">>]) \o <<"/">> \o r0
              ELSE r0
    IN IF <<"t", "o", "p", "i", "c">> \in DOMAIN kwargs
       THEN <<"t", "o", "p", "i", "c", "/">> \o py_str(kwargs[<<"t", "o", "p", "i", "c">>]) \o <<"/">> \o r1
       ELSE r1

\* the options that are part of the url structure: source, topic, then language
path_options(rest_url, kwargs) ==
    LET r1 == IF <<"s", "o", "u", "r", "c", "e">> \in DOMAIN kwargs
              THEN <<"s", "o", "u", "r", "c", "e", "/">> \o py_str(kwargs[<<"s", "o", "u", "r", "c", "e">>]) \o <<"/">> \o rest_url
              ELSE rest_url
        r2 == IF <<"t", "o", "p", "i", "c">> \in DOMAIN kwargs
              THEN <<"t", "o", "p", "i", "c", "/">> \o py_str(kwargs[<<"t", "o", "p", "i", "c">>]) \o <<"/">> \o r1
              ELSE r1
    IN IF <<"l", "a", "n", "g", "u", "a", "g", "e">> \in DOMAIN kwargs
       THEN py_str(kwargs[<<"l", "a", "n", "g", "u", "a", "g", "e">>]) \o <<"/">> \o r2
       ELSE r2

query_options(kwargs) ==
    [k \in (DOMAIN kwargs) \ {<<"s", "o", "u", "r", "c", "e">>, <<"t", "o", "p", "i", "c">>, <<"l", "a", "n", "g", "u", "a", "g", "e">>} |-> kwargs[k]]

\* numbers / lists converted to the right format for the url
option_value(v) ==
    IF v.t = "int" THEN int_to_str(v.n)
    ELSE IF v.t = "str" THEN v.s
    ELSE join(<<";">>, [i \in 1..Len(v.l) |-> py_str(v.l[i])])

query_string(kwargs, order) ==
    LET ks == dict_keys(kwargs, order)
    IN join(<<"&">>, [i \in 1..Len(ks) |-> ks[i] \o <<"=">> \o option_value(kwargs[ks[i]])])

_generate_indicators_url(rest_url, kwargs0, order) ==
    LET kwargs == lower_keys(kwargs0, order)
    IN IF both_topic_and_source(kwargs)
       THEN [err |-> "AssertionError", url |-> <<>>]
       ELSE LET kw == default_mrv(fix_options(kwargs))
                q == query_options(kw)
            IN IF \E k \in DOMAIN q : q[k].t = "none"
               THEN [err |-> "TypeError", url |-> <<>>]
               ELSE [err |-> "",
                     url |-> base_url \o path_options(rest_url, kw)
                                      \o query_string(q, order)]

---------------------------------------------------------------------------
(* Inputs of the URL builder *)

\* option names a caller may pass, with the values drawn for each
OptionValues ==
    [k \in {<<"t", "o", "p", "i", "c">>, <<"T", "o", "p", "i", "c">>, <<"s", "o", "u", "r", "c", "e">>, <<"S", "O", "U", "R", "C", "E">>, <<"l", "a", "n", "g", "u", "a", "g", "e">>, <<"f", "o", "r", "m", "a", "t">>,
            <<"P", "e", "r", "_", "P", "a", "g", "e">>, <<"m", "r", "v">>, <<"M", "R", "V">>, <<"d", "a", "t", "e">>, <<"p", "a", "g", "e">>, <<"g", "a", "p", "f", "i", "l", "l">>} |->
        CASE k = <<"t", "o", "p", "i", "c">> -> {PyInt(5)}
          [] k = <<"T", "o", "p", "i", "c">> -> {PyStr(<<"7">>)}
          [] k = <<"s", "o", "u", "r", "c", "e">> -> {PyInt(2)}
          [] k = <<"S", "O", "U", "R", "C", "E">> -> {PyInt(11)}
          [] k = <<"l", "a", "n", "g", "u", "a", "g", "e">> -> {PyStr(<<"f", "r">>)}
          [] k = <<"f", "o", "r", "m", "a", "t">> -> {PyStr(<<"x", "m", "l">>)}
          [] k = <<"P", "e", "r", "_", "P", "a", "g", "e">> -> {PyInt(50)}
          [] k = <<"m", "r", "v">> -> {PyInt(3)}
          [] k = <<"M", "R", "V">> -> {PyInt(4)}
          [] k = <<"d", "a", "t", "e">> -> {PyStr(<<"2", "0", "0", "0", ":", "2", "0", "1", "0">>), PyList(<<PyInt(2000), PyInt(2010)>>)}
          [] k = <<"p", "a", "g", "e">> -> {PyInt(9)}
          [] OTHER -> {PyStr(<<"Y">>), PyNone}]

OptionNames == DOMAIN OptionValues

\* orders in which the hash table may list the option names
HashOrderA ==
    <<<<"m", "r", "v">>, <<"f", "o", "r", "m", "a", "t">>, <<"T", "o", "p", "i", "c">>, <<"d", "a", "t", "e">>, <<"l", "a", "n", "g", "u", "a", "g", "e">>, <<"p", "e", "r", "_", "p", "a", "g", "e">>, <<"s", "o", "u", "r", "c", "e">>,
      <<"g", "a", "p", "f", "i", "l", "l">>, <<"t", "o", "p", "i", "c">>, <<"M", "R", "V">>, <<"p", "a", "g", "e">>, <<"S", "O", "U", "R", "C", "E">>, <<"P", "e", "r", "_", "P", "a", "g", "e">>>>

Reverse(s) == [i \in 1..Len(s) |-> s[Len(s) + 1 - i]]

HashOrders == {HashOrderA, Reverse(HashOrderA)}

OptionBags ==
    UNION {[names -> UNION {OptionValues[k] : k \in names}] : names \in
              {ns \in SUBSET OptionNames : Cardinality(ns) <= MaxOpts}}

Bags == {b \in OptionBags : \A k \in DOMAIN b : b[k] \in OptionValues[k]}

---------------------------------------------------------------------------
(* ISO code conversion: pycountry's table, cut down to two countries *)

Countries ==
    {[alpha2 |-> <<"U", "S">>, alpha3 |-> <<"U", "S", "A">>], [alpha2 |-> <<"G", "B">>, alpha3 |-> <<"G", "B", "R">>]}

\* pycountry.countries.get(alpha2=code) / get(alpha3=code); {} is KeyError
countries_get(field, code) == {c \in Countries : c[field] = code}

\* mutant: the code is handed back as it came
_convert_to_alpha2_skipped(code) == code

\* A value without upper() comes back as it is (AttributeError), an unknown
\* code comes back upper-cased (KeyError, after code = code.upper()), and a
\* string of any other length falls off the end of the function: None.
_convert_to_alpha2(code) ==
    IF code.t # "str" THEN code
    ELSE LET c == upper(code.s)
             field == IF Len(c) = 2 THEN "alpha2" ELSE "alpha3"
         IN IF Len(c) \notin {2, 3} THEN PyNone
            ELSE IF countries_get(field, c) = {} THEN PyStr(c)
            ELSE PyStr((CHOOSE x \in countries_get(field, c) : TRUE).alpha2)

_convert_to_alpha3(code) ==
    IF code.t # "str" THEN code
    ELSE LET c == upper(code.s)
             field == IF Len(c) = 2 THEN "alpha2" ELSE "alpha3"
         IN IF Len(c) \notin {2, 3} THEN PyNone
            ELSE IF countries_get(field, c) = {} THEN PyStr(c)
            ELSE PyStr((CHOOSE x \in countries_get(field, c) : TRUE).alpha3)

---------------------------------------------------------------------------
(* Indicators: the paginated fetcher and its server *)

\* The server holds the pages of one result set and answers the n-th request
\* of a pagination with page n of Len(pages).
fetch(pages, n) == [header |-> [page |-> n, pages |-> Len(pages)], content |-> pages[n]]

RECURSIVE Flatten(_)
Flatten(pages) == IF Len(pages) = 0 THEN <<>> ELSE Head(pages) \o Flatten(Tail(pages))

RECURSIVE SeqsUpTo(_, _)
\* the sequences of at most n elements of S, no element twice
SeqsUpTo(S, n) ==
    IF n = 0 THEN {<<>>}
    ELSE LET shorter == SeqsUpTo(S, n - 1)
         IN shorter \cup
            UNION {{Append(q, x) : x \in S \ Range(q)} :
                   q \in {r \in shorter : Len(r) = n - 1}}

RECURSIVE Splits(_, _)
\* every way of cutting q into k pages of a record or more
Splits(q, k) ==
    IF k = 1 THEN {<<q>>}
    ELSE UNION {{<<SubSeq(q, 1, i)>> \o rest :
                    rest \in Splits(SubSeq(q, i + 1, Len(q)), k - 1)} :
                i \in 1..(Len(q) - k + 1)}

\* every way of serving at most MaxRecords records of Pool in 1..MaxPages
\* pages: an empty result is one empty page, other pages hold a record or more
Servers(Pool) ==
    {<< <<>> >>} \cup
    UNION {Splits(q, k) : q \in SeqsUpTo(Pool, MaxRecords) \ {<<>>}, k \in 1..MaxPages}

\* mutant: the next pages are put in front of the current page
append_pages_in_front(content, rest) == rest \o content

\* content += self._get_api_response_as_json(next_page)
append_pages(content, rest) == content \o rest

\* mutant: the follow-up asks for the page it has just read
next_page_url_same_page(u, current_page) == u \o <<"&", "p", "a", "g", "e", "=">> \o int_to_str(current_page)

\* url + "&page={0}".format(current_page + 1)
next_page_url(u, current_page) == u \o <<"&", "p", "a", "g", "e", "=">> \o int_to_str(current_page + 1)

---------------------------------------------------------------------------
(* Indicators: the folds *)

dict_set(d, k, v) == [x \in (DOMAIN d) \cup {k} |-> IF x = k THEN v ELSE d[x]]

\* mutant: a later record overwrites the value stored for its date
gci_insert_overwrite(results, dataset) ==
    LET country_id == dataset.country.id
        indicator_id == dataset.indicator.id
        r1 == IF indicator_id \notin DOMAIN results
              THEN dict_set(results, indicator_id, <<>>) ELSE results
        r2 == IF country_id \notin DOMAIN r1[indicator_id]
              THEN dict_set(r1, indicator_id, dict_set(r1[indicator_id], country_id, <<>>))
              ELSE r1
    IN dict_set(r2, indicator_id,
           dict_set(r2[indicator_id], country_id,
               dict_set(r2[indicator_id][country_id], dataset.date, dataset.value)))

\* one iteration of the loop over response_data in get_country_indicators
gci_insert(results, dataset) ==
    LET country_id == dataset.country.id
        indicator_id == dataset.indicator.id
        date == dataset.date
        r1 == IF indicator_id \notin DOMAIN results
              THEN dict_set(results, indicator_id, <<>>) ELSE results
        r2 == IF country_id \notin DOMAIN r1[indicator_id]
              THEN dict_set(r1, indicator_id, dict_set(r1[indicator_id], country_id, <<>>))
              ELSE r1
    IN IF date \notin DOMAIN r2[indicator_id][country_id]
       THEN dict_set(r2, indicator_id,
                dict_set(r2[indicator_id], country_id,
                    dict_set(r2[indicator_id][country_id], date, dataset.value)))
       ELSE r2

gci_info(info, dataset) ==
    [indicators |->
        IF dataset.indicator.id \notin DOMAIN info.indicators
        THEN dict_set(info.indicators, dataset.indicator.id, [value |-> dataset.indicator.value])
        ELSE info.indicators,
     countries |->
        IF dataset.country.id \notin DOMAIN info.countries
        THEN dict_set(info.countries, dataset.country.id, [value |-> dataset.country.value])
        ELSE info.countries]

RECURSIVE gci_fold(_, _, _)
gci_fold(results, info, data) ==
    IF Len(data) = 0 THEN [results |-> results, info |-> info]
    ELSE gci_fold(gci_insert(results, Head(data)), gci_info(info, Head(data)), Tail(data))

\* mutant: a key already present is left alone
tidy_insert_if_absent(tidier_data, data, response_key) ==
    IF data[response_key] \in DOMAIN tidier_data THEN tidier_data
    ELSE dict_set(tidier_data, data[response_key], data)

\* the loop over world_bank_response in _get_indicator_data
tidy_insert(tidier_data, data, response_key) == dict_set(tidier_data, data[response_key], data)

RECURSIVE tidy_fold(_, _, _)
tidy_fold(tidier_data, response, response_key) ==
    IF Len(response) = 0 THEN tidier_data
    ELSE tidy_fold(tidy_insert(tidier_data, Head(response), response_key),
                   Tail(response), response_key)

contains(s, sub) ==
    \E i \in 0..(Len(s) - Len(sub)) : SubSeq(s, i + 1, i + Len(sub)) = sub

\* "{}".format(v) of a record of unicode strings, its keys in hash order
FieldOrder == <<<<"i", "d">>, <<"i", "s", "o", "2", "C", "o", "d", "e">>, <<"c", "o", "d", "e">>, <<"n", "a", "m", "e">>>>

format_record(v) ==
    LET ks == dict_keys(v, FieldOrder)
    IN <<"{">> \o join(<<",", " ">>, [i \in 1..Len(ks) |->
                               <<"u", "'">> \o ks[i] \o <<"'", ":", " ", "u", "'">> \o v[ks[i]] \o <<"'">>]) \o <<"}">>

match_data(ss, results) ==
    LET keep == {k \in DOMAIN results : contains(lower(format_record(results[k])), lower(ss))}
    IN [k \in keep |-> results[k]]

---------------------------------------------------------------------------
(* Inputs of the Indicators calls *)

Entity(id, iso2, code, name) ==
    [k \in {<<"i", "d">>, <<"i", "s", "o", "2", "C", "o", "d", "e">>, <<"c", "o", "d", "e">>, <<"n", "a", "m", "e">>} |->
        CASE k = <<"i", "d">> -> id [] k = <<"i", "s", "o", "2", "C", "o", "d", "e">> -> iso2 [] k = <<"c", "o", "d", "e">> -> code
          [] OTHER -> name]

\* two records with the same keys and different names, and a third
Entities ==
    {Entity(<<"U", "S", "A">>, <<"U", "S">>, <<"N", "A", "C">>, <<"f", "i", "r", "s", "t">>),
     Entity(<<"U", "S", "A">>, <<"U", "S">>, <<"N", "A", "C">>, <<"s", "e", "c", "o", "n", "d">>),
     Entity(<<"G", "B", "R">>, <<"G", "B">>, <<"E", "C", "S">>, <<"t", "h", "i", "r", "d">>)}

DataPoint(cid, cname, iid, iname, date, value) ==
    [country |-> [id |-> cid, value |-> cname],
     indicator |-> [id |-> iid, value |-> iname], date |-> date, value |-> value]

\* the two points of the specification's example, a second point for the
\* first one's (indicator, country, date), and a point of an aggregate
DataPoints ==
    {DataPoint(<<"U", "S">>, <<"U", "n", "i", "t", "e", "d", " ", "S", "t", "a", "t", "e", "s">>, <<"S", "P", ".", "P", "O", "P", ".", "T", "O", "T", "L">>, <<"P", "o", "p", "u", "l", "a", "t", "i", "o", "n">>, <<"2", "0", "2", "0">>, 331000000),
     DataPoint(<<"U", "S">>, <<"U", "n", "i", "t", "e", "d", " ", "S", "t", "a", "t", "e", "s">>, <<"S", "P", ".", "P", "O", "P", ".", "T", "O", "T", "L">>, <<"P", "o", "p", "u", "l", "a", "t", "i", "o", "n">>, <<"2", "0", "2", "0">>, 5),
     DataPoint(<<"G", "B">>, <<"U", "n", "i", "t", "e", "d", " ", "K", "i", "n", "g", "d", "o", "m">>, <<"S", "P", ".", "P", "O", "P", ".", "T", "O", "T", "L">>, <<"P", "o", "p", "u", "l", "a", "t", "i", "o", "n">>, <<"2", "0", "2", "0">>, 67000000),
     DataPoint(<<"1", "W">>, <<"W", "o", "r", "l", "d">>, <<"N", "Y", ".", "G", "D", "P">>, <<"G", "D", "P">>, <<"2", "0", "1", "9">>, 7)}

IndicatorLists == {<<<<"S", "P", ".", "P", "O", "P", ".", "T", "O", "T", "L">>>>, <<<<"S", "P", ".", "P", "O", "P", ".", "T", "O", "T", "L">>, <<"N", "Y", ".", "G", "D", "P">>>>}

CountryLists ==
    {PyNone, PyList(<<PyStr(<<"u", "s">>), PyStr(<<"G", "B", "R">>)>>), PyList(<<PyInt(302)>>)}

IdLists == {PyNone, PyList(<<PyStr(<<"u", "s">>), PyStr(<<"G", "B">>)>>)}

Matches == {PyNone, PyStr(<<"S", "E", "C", "O", "N", "D">>)}

CallKwargs ==
    {b \in Bags : DOMAIN b \in {{}, {<<"l", "a", "n", "g", "u", "a", "g", "e">>}, {<<"T", "o", "p", "i", "c">>, <<"s", "o", "u", "r", "c", "e">>}}}

---------------------------------------------------------------------------
(* Climate: urls *)

climate_base_url == <<"h", "t", "t", "p", ":", "/", "/", "c", "l", "i", "m", "a", "t", "e", "d", "a", "t", "a", "a", "p", "i", ".", "w", "o", "r", "l", "d", "b", "a", "n", "k", ".", "o", "r", "g", "/", "c", "l", "i", "m", "a", "t", "e", "w", "e", "b", "/", "r", "e", "s", "t", "/">>

\* int(loc): a number or a string of digits is a basin id, another string is
\* a ValueError, anything else an uncaught TypeError
int_outcome(loc) ==
    IF loc.t = "int" THEN "ok"
    ELSE IF loc.t = "str"
    THEN IF Len(loc.s) > 0 /\ \A i \in 1..Len(loc.s) : loc.s[i] \in Range(DigitChars)
         THEN "ok" ELSE "ValueError"
    ELSE "TypeError"

instrumental_url(var, interval, loc) ==
    IF int_outcome(loc) = "ok"
    THEN [loc |-> loc,
          url |-> climate_base_url \o <<"v", "1", "/", "b", "a", "s", "i", "n", "/", "c", "r", "u", "/">> \o var \o <<"/">> \o interval \o <<"/">>
                    \o py_str(loc) \o <<".", "j", "s", "o", "n">>]
    ELSE LET c == _convert_to_alpha3(loc)
         IN [loc |-> c,
             url |-> climate_base_url \o <<"v", "1", "/", "c", "o", "u", "n", "t", "r", "y", "/", "c", "r", "u", "/">> \o var \o <<"/">> \o interval \o <<"/">>
                       \o py_str(c) \o <<".", "j", "s", "o", "n">>]

\* mutant: the month is used as the API gives it
instrumental_key_zero_based(data, interval) ==
    IF interval = <<"m", "o", "n", "t", "h">> THEN data.month ELSE data.year

\* the period key of an observation
instrumental_key(data, interval) ==
    IF interval = <<"m", "o", "n", "t", "h">> THEN data.month + 1 ELSE data.year

RECURSIVE instrumental_period(_, _, _)
instrumental_period(periods, response, interval) ==
    IF Len(response) = 0 THEN periods
    ELSE instrumental_period(
             dict_set(periods, instrumental_key(Head(response), interval), Head(response).data),
             Tail(response), interval)

RECURSIVE instrumental_fold(_, _, _, _)
instrumental_fold(results, urls, response, interval) ==
    IF Len(urls) = 0 THEN results
    ELSE instrumental_fold(
             dict_set(results, _convert_to_alpha2(Head(urls).loc),
                      instrumental_period(<<>>, response, interval)),
             Tail(urls), response, interval)

_get_instrumental(var, locations, interval, response) ==
    IF \E i \in 1..Len(locations) : int_outcome(locations[i]) = "TypeError"
    THEN [err |-> "TypeError", val |-> <<>>, requests |-> <<>>]
    ELSE LET urls == [i \in 1..Len(locations) |-> instrumental_url(var, interval, locations[i])]
         IN [err |-> "",
             val |-> instrumental_fold(<<>>, urls, response, interval),
             requests |-> [i \in 1..Len(urls) |-> urls[i].url]]

\* mutant: the data_type goes into the path as given
expand_data_type_skipped(data_type) == data_type

\* data_type.replace('a', 'annual', 1) for a data_type that starts with 'a'
expand_data_type(data_type) ==
    IF startswith(data_type, <<"a">>) THEN <<"a", "n", "n", "u", "a", "l">> \o Tail(data_type) ELSE data_type

gcm_valid_dates == <<1920, 1940, 1960, 1980, 2020, 2040, 2060, 2080>>
stat_valid_dates == <<1961, 2046, 2081>>
date_range == 19
stat_first_date == 1961
stat_first_end == 2000

ensemble_valid_dates(var) ==
    IF var \notin {<<"p", "r">>, <<"t", "a", "s">>} THEN stat_valid_dates ELSE gcm_valid_dates

gcm_end_date(start_date) == start_date + date_range

\* mutant: every window is start_date + date_range long
ensemble_end_date_no_exception(start_date) == start_date + date_range

ensemble_end_date(start_date) ==
    IF start_date = stat_first_date THEN stat_first_end ELSE start_date + date_range

loc_type(loc) == IF int_outcome(loc) = "ok" THEN <<"b", "a", "s", "i", "n">> ELSE <<"c", "o", "u", "n", "t", "r", "y">>

gcm_url(var, data_type, start_date, loc) ==
    climate_base_url \o <<"v", "1", "/">> \o loc_type(loc) \o <<"/">> \o data_type \o <<"/">> \o var \o <<"/">>
        \o int_to_str(start_date) \o <<"/">> \o int_to_str(gcm_end_date(start_date)) \o <<"/">>
        \o py_str(loc) \o <<".", "j", "s", "o", "n">>

ensemble_url(var, data_type, start_date, loc) ==
    climate_base_url \o <<"v", "1", "/">> \o loc_type(loc) \o <<"/">> \o data_type \o <<"/", "e", "n", "s", "e", "m", "b", "l", "e", "/">> \o var
        \o <<"/">> \o int_to_str(start_date) \o <<"/">> \o int_to_str(ensemble_end_date(start_date))
        \o <<"/">> \o py_str(loc) \o <<".", "j", "s", "o", "n">>

\* for start_date in valid_dates: for loc in locations: urls.append((loc, full_url))
modelled_urls(ensemble, var, data_type, locations, valid_dates) ==
    [n \in 1..(Len(valid_dates) * Len(locations)) |->
        LET start_date == valid_dates[((n - 1) \div Len(locations)) + 1]
            loc == locations[((n - 1) % Len(locations)) + 1]
        IN [loc |-> loc,
            url |-> IF ensemble THEN ensemble_url(var, data_type, start_date, loc)
                    ELSE gcm_url(var, data_type, start_date, loc)]]

---------------------------------------------------------------------------
(* Climate: the fold of the modelled responses *)

\* a time key: fromYear, or the tuple (fromYear, scenario)
Year(y) == [tuple |-> FALSE, year |-> y, scenario |-> <<>>]
YearScenario(y, sc) == [tuple |-> TRUE, year |-> y, scenario |-> sc]

\* a value: annualVal[0], or a dict of months
Scalar(v) == [scalar |-> TRUE, v |-> v, months |-> <<>>]
Months(m) == [scalar |-> FALSE, v |-> 0, months |-> m]

time_key(data) ==
    IF "scenario" \in DOMAIN data THEN YearScenario(data.fromYear, data.scenario)
    ELSE Year(data.fromYear)

\* levels 2 to 4 of the fold: location, time, value or months
modelled_insert(results, gcm_key, loc, data) ==
    LET r1 == IF gcm_key \notin DOMAIN results THEN dict_set(results, gcm_key, <<>>)
              ELSE results
        r2 == IF loc \notin DOMAIN r1[gcm_key]
              THEN dict_set(r1, gcm_key, dict_set(r1[gcm_key], loc, <<>>)) ELSE r1
        time == time_key(data)
        old == IF time \notin DOMAIN r2[gcm_key][loc] THEN Months(<<>>)
               ELSE r2[gcm_key][loc][time]
        new == IF "monthVals" \in DOMAIN data
               THEN Months([i \in (DOMAIN old.months) \cup (1..Len(data.monthVals)) |->
                              IF i \in 1..Len(data.monthVals) THEN data.monthVals[i]
                              ELSE old.months[i]])
               ELSE IF "annualVal" \in DOMAIN data THEN Scalar(data.annualVal[1])
               ELSE old
    IN dict_set(r2, gcm_key, dict_set(r2[gcm_key], loc, dict_set(r2[gcm_key][loc], time, new)))

\* results[...][time][i] = val on a value that is not a dict
months_into_scalar(results, gcm_key, loc, data) ==
    /\ "monthVals" \in DOMAIN data
    /\ Len(data.monthVals) > 0
    /\ gcm_key \in DOMAIN results
    /\ loc \in DOMAIN results[gcm_key]
    /\ time_key(data) \in DOMAIN results[gcm_key][loc]
    /\ results[gcm_key][loc][time_key(data)].scalar

NoKey == <<>>

\* The fold of one response. st is [err, results, gcm_key, fetched]; gcm_key
\* is the local of that name, NoKey until a record with a gcm has been seen,
\* and fetched counts the urls fetched so far.
RECURSIVE modelled_response(_, _, _, _)
modelled_response(st, loc, response, ensemble) ==
    IF Len(response) = 0 \/ st.err # "" THEN st
    ELSE LET data == Head(response)
             gcm_key == IF ensemble THEN <<<<"e", "n", "s", "e", "m", "b", "l", "e">>, data.percentile>>
                        ELSE IF "gcm" \in DOMAIN data THEN data.gcm
                        ELSE st.gcm_key
         IN IF gcm_key = NoKey
            THEN [st EXCEPT !.err = "UnboundLocalError"]
            ELSE IF months_into_scalar(st.results, gcm_key, loc, data)
            THEN [st EXCEPT !.err = "TypeError"]
            ELSE modelled_response(
                     [st EXCEPT !.gcm_key = gcm_key,
                                !.results = modelled_insert(st.results, gcm_key, loc, data)],
                     loc, Tail(response), ensemble)

RECURSIVE modelled_fold(_, _, _, _)
modelled_fold(st, urls, response, ensemble) ==
    IF Len(urls) = 0 \/ st.err # "" THEN st
    ELSE modelled_fold(
             modelled_response([st EXCEPT !.fetched = st.fetched + 1],
                               _convert_to_alpha2(Head(urls).loc), response, ensemble),
             Tail(urls), response, ensemble)

\* k not in gcm: membership in a list, substring of a string
gcm_wanted(k, gcm) ==
    IF gcm.t = "list" THEN \E i \in 1..Len(gcm.l) : gcm.l[i] = PyStr(k)
    ELSE contains(gcm.s, k)

filter_gcm(results, gcm) ==
    IF (gcm.t = "list" /\ Len(gcm.l) > 0) \/ (gcm.t = "str" /\ Len(gcm.s) > 0)
    THEN [k \in {x \in DOMAIN results : gcm_wanted(x, gcm)} |-> results[k]]
    ELSE results

\* mutant: a year is deleted as well
sres_keeps_tuples_only(k, sres) == k.tuple /\ lower(k.scenario) = lower(sres.s)

\* a tuple key is deleted if its scenario differs from sres when both are
\* lower-cased; a year has no k[1] and stays
sres_keeps(k, sres) == ~k.tuple \/ lower(k.scenario) = lower(sres.s)

filter_sres(results, sres) ==
    IF sres.t = "str" /\ Len(sres.s) > 0
    THEN [g \in DOMAIN results |->
             [loc \in DOMAIN results[g] |->
                 [k \in {x \in DOMAIN results[g][loc] : sres_keeps(x, sres)} |->
                     results[g][loc][k]]]]
    ELSE results

truthy(v) ==
    \/ v.t = "str" /\ Len(v.s) > 0
    \/ v.t = "list" /\ Len(v.l) > 0
    \/ v.t = "int" /\ v.n # 0

_get_modelled_gcm(var, data_type, locations, gcm, sres, response) ==
    IF \E i \in 1..Len(locations) : int_outcome(locations[i]) = "TypeError"
    THEN [err |-> "TypeError", val |-> <<>>, requests |-> <<>>]
    ELSE LET urls == modelled_urls(FALSE, var, data_type, locations, gcm_valid_dates)
             st == modelled_fold([err |-> "", gcm_key |-> NoKey, results |-> <<>>, fetched |-> 0],
                                 urls, response, FALSE)
         IN [err |-> st.err,
             val |-> IF st.err # "" THEN <<>>
                     ELSE filter_sres(filter_gcm(st.results, gcm), sres),
             requests |-> [i \in 1..st.fetched |-> urls[i].url]]

\* A truthy ensemble_percentile reaches the name ensemble_percentiles, which
\* is not defined: NameError, after every request has been made.
_get_modelled_ensemble(var, data_type, locations, sres, ensemble_percentile, response) ==
    IF \E i \in 1..Len(locations) : int_outcome(locations[i]) = "TypeError"
    THEN [err |-> "TypeError", val |-> <<>>, requests |-> <<>>]
    ELSE LET urls == modelled_urls(TRUE, var, data_type, locations, ensemble_valid_dates(var))
             st == modelled_fold([err |-> "", gcm_key |-> NoKey, results |-> <<>>, fetched |-> 0],
                                 urls, response, TRUE)
             err == IF st.err # "" THEN st.err
                    ELSE IF truthy(ensemble_percentile) /\ DOMAIN st.results # {}
                    THEN "NameError" ELSE ""
         IN [err |-> err,
             val |-> IF err # "" THEN <<>> ELSE filter_sres(st.results, sres),
             requests |-> [i \in 1..st.fetched |-> urls[i].url]]

_get_modelled(var, data_type0, locations0, gcm0, sres, ensemble_percentile, response) ==
    LET data_type == expand_data_type(data_type0)
        gcm == IF gcm0.t = "str" THEN PyStr(lower(gcm0.s)) ELSE gcm0
        locations == [i \in 1..Len(locations0) |-> _convert_to_alpha3(locations0[i])]
    IN IF gcm = PyStr(<<"e", "n", "s", "e", "m", "b", "l", "e">>)
       THEN _get_modelled_ensemble(var, data_type, locations, sres, ensemble_percentile,
                                   response)
       ELSE _get_modelled_gcm(var, data_type, locations, gcm, sres, response)

---------------------------------------------------------------------------
(* Inputs of the Climate calls *)

\* a country in alpha-2 and lower case, a country in alpha-3, a basin id as a
\* number, and a basin id as a string of one digit
Locations == {PyStr(<<"u", "s">>), PyStr(<<"G", "B", "R">>), PyInt(302), PyStr(<<"5">>)}

LocationLists == SeqsUpTo(Locations, MaxLocs) \ {<<>>}

Intervals == {<<"y", "e", "a", "r">>, <<"m", "o", "n", "t", "h">>, <<"d", "e", "c", "a", "d", "e">>}

\* observations of the instrumental endpoints; the first and the third have
\* the same month and year
InstrumentalObs ==
    {[month |-> 0, year |-> 1901, data |-> 10],
     [month |-> 11, year |-> 1902, data |-> 20],
     [month |-> 0, year |-> 1901, data |-> 30]}

DataTypes == {<<"a", "a", "v", "g">>, <<"a", "a", "n", "o", "m">>, <<"m", "a", "v", "g">>, <<"m", "a", "n", "o", "m">>}

GcmArgs == {PyNone, PyStr(<<"E", "n", "s", "e", "m", "b", "l", "e">>), PyList(<<PyStr(<<"b", "c", "c", "r", "_", "b", "c", "m", "2", "_", "0">>)>>)}

SresArgs == {PyNone, PyStr(<<"A", "2">>)}

PercentileArgs == {PyNone, PyList(<<PyInt(50)>>)}

Stats == {<<"t", "m", "i", "n", "_", "m", "e", "a", "n", "s">>}

\* observations of the modelled endpoints: a past value, a future value of
\* scenario a2 and monthly values of scenario b1
GcmObs ==
    {[gcm |-> <<"b", "c", "c", "r", "_", "b", "c", "m", "2", "_", "0">>, fromYear |-> 1920, annualVal |-> <<11>>],
     [gcm |-> <<"b", "c", "c", "r", "_", "b", "c", "m", "2", "_", "0">>, scenario |-> <<"a", "2">>, fromYear |-> 2020, annualVal |-> <<22>>],
     [gcm |-> <<"c", "c", "c", "m", "a", "_", "c", "g", "c", "m", "3", "_", "1">>, scenario |-> <<"b", "1">>, fromYear |-> 2020,
      monthVals |-> <<1, 2, 3, 4, 5, 6, 7, 8, 9, 10, 11, 12>>]}

EnsembleObs ==
    {[percentile |-> 50, fromYear |-> 1920, annualVal |-> <<11>>],
     [percentile |-> 10, scenario |-> <<"a", "2">>, fromYear |-> 2020, annualVal |-> <<22>>],
     [percentile |-> 50, scenario |-> <<"b", "1">>, fromYear |-> 2020,
      monthVals |-> <<1, 2, 3, 4, 5, 6, 7, 8, 9, 10, 11, 12>>]}

---------------------------------------------------------------------------
(* The state machine *)

NoCall == [op |-> "none"]
NoResult == [err |-> "", val |-> <<>>]
Raised(e) == [err |-> e, val |-> <<>>]
Returned(v) == [err |-> "", val |-> v]

\* Every call builds its mappings afresh and nothing is kept between calls,
\* so a behaviour is one call: pc runs from "start" to "done".
Init ==
    /\ pc = "start"
    /\ call = NoCall
    /\ result = NoResult
    /\ requests = <<>>
    /\ server = <<>>
    /\ served = 0
    /\ url = <<>>
    /\ stack = <<>>
    /\ retval = <<>>
    /\ todo = <<>>
    /\ country_string = <<>>
    /\ response_data = <<>>

\* a direct call of the URL builder
GenerateUrl ==
    /\ pc = "start"
    /\ \E rest_url \in {<<"i", "n", "d", "i", "c", "a", "t", "o", "r", "?">>, <<"t", "o", "p", "i", "c", "/", "5", "?">>}, kwargs \in Bags, order \in HashOrders :
          LET r == _generate_indicators_url(rest_url, kwargs, order)
          IN /\ call' = [op |-> "_generate_indicators_url", rest_url |-> rest_url,
                         kwargs |-> kwargs, order |-> order]
             /\ result' = [err |-> r.err, val |-> r.url]
    /\ pc' = "done"
    /\ UNCHANGED <<requests, server, served, url, stack, retval, todo,
                   country_string, response_data>>

\* a direct call of the paginated fetcher, with a url of the builder
FetchUrl ==
    /\ pc = "start"
    /\ \E rest_url \in {<<"t", "o", "p", "i", "c", "?">>, <<"s", "o", "u", "r", "c", "e", "?">>}, pages \in Servers(DataPoints) :
          LET u == _generate_indicators_url(rest_url, <<>>, HashOrderA).url
          IN /\ call' = [op |-> "_get_api_response_as_json", url |-> u]
             /\ server' = pages
             /\ url' = u
    /\ served' = 0
    /\ pc' = "fetch"
    /\ UNCHANGED <<result, requests, stack, retval, todo, country_string, response_data>>

\* ";".join([_convert_to_alpha3(code) for code in country_codes]), or "all"
gci_country_string(country_codes) ==
    IF country_codes.t # "list" \/ Len(country_codes.l) = 0
    THEN [err |-> "", s |-> <<"a", "l", "l">>]
    ELSE LET codes == [i \in 1..Len(country_codes.l) |-> _convert_to_alpha3(country_codes.l[i])]
         IN IF \E i \in 1..Len(codes) : codes[i].t # "str"
            THEN [err |-> "TypeError", s |-> <<>>]
            ELSE [err |-> "", s |-> join(<<";">>, [i \in 1..Len(codes) |-> codes[i].s])]

\* get_country_indicators, up to its loop over the indicator codes
get_country_indicators ==
    /\ pc = "start"
    /\ \E indicator_codes \in IndicatorLists, country_codes \in CountryLists,
          kwargs \in CallKwargs, pages \in Servers(DataPoints) :
          LET cs == gci_country_string(country_codes)
          IN /\ call' = [op |-> "get_country_indicators",
                         indicator_codes |-> indicator_codes,
                         country_codes |-> country_codes,
                         kwargs |-> kwargs, order |-> HashOrderA]
             /\ server' = pages
             /\ country_string' = cs.s
             /\ IF cs.err # ""
                THEN /\ result' = Raised(cs.err)
                     /\ todo' = <<>>
                     /\ pc' = "done"
                ELSE /\ result' = NoResult
                     /\ todo' = indicator_codes
                     /\ pc' = "gci_loop"
    /\ UNCHANGED <<requests, served, url, stack, retval, response_data>>

\* the loop body: build the url of the next indicator and call the fetcher
gci_next_indicator ==
    /\ pc = "gci_loop"
    /\ todo # <<>>
    /\ LET rest_url == <<"c", "o", "u", "n", "t", "r", "i", "e", "s", "/">> \o country_string \o <<"/", "i", "n", "d", "i", "c", "a", "t", "o", "r", "s", "/">> \o Head(todo) \o <<"?">>
           r == _generate_indicators_url(rest_url, call.kwargs, call.order)
       IN IF r.err # ""
          THEN /\ result' = Raised(r.err)
               /\ pc' = "done"
               /\ UNCHANGED <<url, served>>
          ELSE /\ url' = r.url
               /\ served' = 0
               /\ pc' = "fetch"
               /\ UNCHANGED result
    /\ UNCHANGED <<call, requests, server, stack, retval, todo, country_string,
                   response_data>>

\* _get_api_response_as_json: fetch the url, read header and content, and
\* call itself for the next page if there is one
fetch_page ==
    /\ pc = "fetch"
    /\ LET json_data == fetch(server, served + 1)
           header == json_data.header
           content == json_data.content
           current_page == header.page
       IN /\ requests' = Append(requests, url)
          /\ served' = served + 1
          /\ IF current_page < header.pages
             THEN /\ stack' = Append(stack, [url |-> url, content |-> content])
                  /\ url' = next_page_url(url, current_page)
                  /\ pc' = "fetch"
                  /\ UNCHANGED retval
             ELSE /\ retval' = content
                  /\ pc' = "return"
                  /\ UNCHANGED <<stack, url>>
    /\ UNCHANGED <<call, result, server, todo, country_string, response_data>>

\* _get_api_response_as_json: content += (what the call for the next page returned)
return_page ==
    /\ pc = "return"
    /\ stack # <<>>
    /\ LET frame == stack[Len(stack)]
       IN /\ retval' = append_pages(frame.content, retval)
          /\ url' = frame.url
    /\ stack' = SubSeq(stack, 1, Len(stack) - 1)
    /\ UNCHANGED <<pc, call, result, requests, server, served, todo, country_string,
                   response_data>>

\* _get_api_response_as_json, called directly: return content
fetch_return ==
    /\ pc = "return"
    /\ stack = <<>>
    /\ call.op = "_get_api_response_as_json"
    /\ result' = Returned(retval)
    /\ pc' = "done"
    /\ UNCHANGED <<call, requests, server, served, url, stack, retval, todo,
                   country_string, response_data>>

\* get_country_indicators: response_data += the fetcher's list; next indicator
gci_collect ==
    /\ pc = "return"
    /\ stack = <<>>
    /\ call.op = "get_country_indicators"
    /\ response_data' = response_data \o retval
    /\ todo' = Tail(todo)
    /\ pc' = "gci_loop"
    /\ UNCHANGED <<call, result, requests, server, served, url, stack, retval,
                   country_string>>

\* get_country_indicators: arrange the data and return results, info
gci_return ==
    /\ pc = "gci_loop"
    /\ todo = <<>>
    /\ LET r == gci_fold(<<>>, [indicators |-> <<>>, countries |-> <<>>], response_data)
       IN result' = Returned(<<r.results, r.info>>)
    /\ pc' = "done"
    /\ UNCHANGED <<call, requests, server, served, url, stack, retval, todo,
                   country_string, response_data>>

\* _get_indicator_data, up to its call of the fetcher
get_indicator_data(op, api_ids, rest_url, response_key, match, kwargs, pages) ==
    LET rest_string == join(<<";">>, [i \in 1..Len(api_ids.l) |-> py_str(api_ids.l[i])])
        u == IF api_ids.t = "list" /\ Len(api_ids.l) > 0
             THEN rest_url \o <<"/">> \o rest_string \o <<"?">>
             ELSE rest_url \o <<"?">>
        r == _generate_indicators_url(u, kwargs, HashOrderA)
    IN /\ call' = [op |-> op, api_ids |-> api_ids, response_key |-> response_key,
                   match |-> match, kwargs |-> kwargs, order |-> HashOrderA]
       /\ server' = pages
       /\ IF r.err # ""
          THEN /\ result' = Raised(r.err)
               /\ pc' = "done"
               /\ UNCHANGED <<url, served>>
          ELSE /\ url' = r.url
               /\ served' = 0
               /\ pc' = "fetch"
               /\ UNCHANGED result
       /\ UNCHANGED <<requests, stack, retval, todo, country_string, response_data>>

\* common_only is left at False
get_indicators ==
    /\ pc = "start"
    /\ \E indicator_codes \in IdLists, match \in Matches, kwargs \in CallKwargs,
          pages \in Servers(Entities) :
          get_indicator_data("get_indicators", indicator_codes, <<"i", "n", "d", "i", "c", "a", "t", "o", "r">>, <<"i", "d">>,
                             match, kwargs, pages)

\* A non-empty country_codes is converted by _covert_to_alpha3, a name the
\* module does not define: NameError.
get_countries ==
    /\ pc = "start"
    /\ \E country_codes \in IdLists, match \in Matches, kwargs \in CallKwargs,
          pages \in Servers(Entities) :
          IF country_codes.t = "list" /\ Len(country_codes.l) > 0
          THEN /\ call' = [op |-> "get_countries", api_ids |-> country_codes,
                           response_key |-> <<"i", "s", "o", "2", "C", "o", "d", "e">>, match |-> match,
                           kwargs |-> kwargs, order |-> HashOrderA]
               /\ server' = pages
               /\ result' = Raised("NameError")
               /\ pc' = "done"
               /\ UNCHANGED <<requests, served, url, stack, retval, todo,
                              country_string, response_data>>
          ELSE get_indicator_data("get_countries", country_codes, <<"c", "o", "u", "n", "t", "r", "y">>,
                                  <<"i", "s", "o", "2", "C", "o", "d", "e">>, match, kwargs, pages)

get_income_levels ==
    /\ pc = "start"
    /\ \E income_codes \in IdLists, match \in Matches, kwargs \in CallKwargs,
          pages \in Servers(Entities) :
          get_indicator_data("get_income_levels", income_codes, <<"i", "n", "c", "o", "m", "e", "l", "e", "v", "e", "l">>, <<"i", "d">>,
                             match, kwargs, pages)

get_lending_types ==
    /\ pc = "start"
    /\ \E lending_codes \in IdLists, match \in Matches, kwargs \in CallKwargs,
          pages \in Servers(Entities) :
          get_indicator_data("get_lending_types", lending_codes, <<"l", "e", "n", "d", "i", "n", "g", "t", "y", "p", "e">>, <<"i", "d">>,
                             match, kwargs, pages)

get_regions ==
    /\ pc = "start"
    /\ \E region_codes \in IdLists, match \in Matches, kwargs \in CallKwargs,
          pages \in Servers(Entities) :
          get_indicator_data("get_regions", region_codes, <<"r", "e", "g", "i", "o", "n">>, <<"c", "o", "d", "e">>,
                             match, kwargs, pages)

get_topics ==
    /\ pc = "start"
    /\ \E topic_codes \in IdLists, match \in Matches, kwargs \in CallKwargs,
          pages \in Servers(Entities) :
          get_indicator_data("get_topics", topic_codes, <<"t", "o", "p", "i", "c">>, <<"i", "d">>,
                             match, kwargs, pages)

get_sources ==
    /\ pc = "start"
    /\ \E source_codes \in IdLists, match \in Matches, kwargs \in CallKwargs,
          pages \in Servers(Entities) :
          get_indicator_data("get_sources", source_codes, <<"s", "o", "u", "r", "c", "e">>, <<"i", "d">>,
                             match, kwargs, pages)

MetadataCalls ==
    {"get_indicators", "get_countries", "get_income_levels", "get_lending_types",
     "get_regions", "get_topics", "get_sources"}

\* _get_indicator_data: fold the fetcher's list into a dict, filter it by match
gid_return ==
    /\ pc = "return"
    /\ stack = <<>>
    /\ call.op \in MetadataCalls
    /\ LET tidier_data == tidy_fold(<<>>, retval, call.response_key)
       IN result' = Returned(IF call.match.t = "str"/\ Len(call.match.s) > 0
                             THEN match_data(call.match.s, tidier_data)
                             ELSE tidier_data)
    /\ pc' = "done"
    /\ UNCHANGED <<call, requests, server, served, url, stack, retval, todo,
                   country_string, response_data>>

\* a call of the Climate client: every request gets the same response
climate_call(c, r, response) ==
    /\ call' = c
    /\ server' = response
    /\ result' = [err |-> r.err, val |-> r.val]
    /\ requests' = r.requests
    /\ pc' = "done"
    /\ UNCHANGED <<served, url, stack, retval, todo, country_string, response_data>>

get_precip_instrumental ==
    /\ pc = "start"
    /\ \E locations \in LocationLists, interval \in Intervals,
          response \in SeqsUpTo(InstrumentalObs, MaxObs) :
          climate_call([op |-> "get_precip_instrumental", locations |-> locations,
                        interval |-> interval],
                       _get_instrumental(<<"p", "r">>, locations, interval, response), response)

get_temp_instrumental ==
    /\ pc = "start"
    /\ \E locations \in LocationLists, interval \in Intervals,
          response \in SeqsUpTo(InstrumentalObs, MaxObs) :
          climate_call([op |-> "get_temp_instrumental", locations |-> locations,
                        interval |-> interval],
                       _get_instrumental(<<"t", "a", "s">>, locations, interval, response), response)

\* ensemble_percentile=None is what both calls hand on, whatever the caller gave
get_precip_modelled ==
    /\ pc = "start"
    /\ \E data_type \in DataTypes, locations \in LocationLists, gcm \in GcmArgs,
          sres \in SresArgs, ensemble_percentile \in PercentileArgs :
          \E response \in SeqsUpTo(IF gcm.t = "str" THEN EnsembleObs ELSE GcmObs, MaxObs) :
             climate_call([op |-> "get_precip_modelled", data_type |-> data_type,
                           locations |-> locations, gcm |-> gcm, sres |-> sres,
                           ensemble_percentile |-> ensemble_percentile],
                          _get_modelled(<<"p", "r">>, data_type, locations, gcm, sres, PyNone,
                                        response),
                          response)

get_temp_modelled ==
    /\ pc = "start"
    /\ \E data_type \in DataTypes, locations \in LocationLists, gcm \in GcmArgs,
          sres \in SresArgs, ensemble_percentile \in PercentileArgs :
          \E response \in SeqsUpTo(IF gcm.t = "str" THEN EnsembleObs ELSE GcmObs, MaxObs) :
             climate_call([op |-> "get_temp_modelled", data_type |-> data_type,
                           locations |-> locations, gcm |-> gcm, sres |-> sres,
                           ensemble_percentile |-> ensemble_percentile],
                          _get_modelled(<<"t", "a", "s">>, data_type, locations, gcm, sres, PyNone,
                                        response),
                          response)

get_derived_stat ==
    /\ pc = "start"
    /\ \E data_type \in DataTypes, stat \in Stats, locations \in LocationLists,
          sres \in SresArgs, ensemble_percentile \in PercentileArgs,
          response \in SeqsUpTo(EnsembleObs, MaxObs) :
          climate_call([op |-> "get_derived_stat", data_type |-> data_type, stat |-> stat,
                        locations |-> locations, gcm |-> PyStr(<<"e", "n", "s", "e", "m", "b", "l", "e">>), sres |-> sres,
                        ensemble_percentile |-> ensemble_percentile],
                       _get_modelled(stat, data_type, locations, PyStr(<<"e", "n", "s", "e", "m", "b", "l", "e">>), sres,
                                     ensemble_percentile, response),
                       response)

Next ==
    \/ GenerateUrl
    \/ FetchUrl
    \/ fetch_return
    \/ get_country_indicators
    \/ gci_next_indicator
    \/ fetch_page
    \/ return_page
    \/ gci_collect
    \/ gci_return
    \/ get_indicators
    \/ get_countries
    \/ get_income_levels
    \/ get_lending_types
    \/ get_regions
    \/ get_topics
    \/ get_sources
    \/ gid_return
    \/ get_precip_instrumental
    \/ get_temp_instrumental
    \/ get_precip_modelled
    \/ get_temp_modelled
    \/ get_derived_stat

Spec == Init /\ [][Next]_vars

\* The paginated fetcher alone. The program is sequential: an invocation
\* that has a next step takes it.
FetcherNext ==
    \/ FetchUrl
    \/ fetch_page
    \/ return_page
    \/ fetch_return

FetcherSpec == Init /\ [][FetcherNext]_vars /\ WF_vars(FetcherNext)

---------------------------------------------------------------------------
(* Properties *)

Done(op) == pc = "done" /\ call.op = op
Succeeded(op) == Done(op) /\ result.err = ""

RECURSIVE split(_, _)
split(s, sep) ==
    LET i == IndexOf(sep, s)
    IN IF i = 0 THEN <<s>>
       ELSE <<SubSeq(s, 1, i - 1)>> \o split(SubSeq(s, i + 1, Len(s)), sep)

\* the parameters of a url's query string
Params(u) == Range(split(SubSeq(u, IndexOf("?", u) + 1, Len(u)), "&"))

\* the names of a bag that are the option `name` in some letter-casing
Named(bag, name) == {k \in DOMAIN bag : lower(k) = name}

\* the urls a finished call has produced: the builder's result, the requests
UrlsProduced ==
    IF Succeeded("_generate_indicators_url") THEN {result.val}
    ELSE IF pc = "done" /\ call.op \in MetadataCalls \cup {"get_country_indicators"}
    THEN Range(requests)
    ELSE {}

SameSeries(a, b) ==
    /\ a.indicator.id = b.indicator.id
    /\ a.country.id = b.country.id
    /\ a.date = b.date

\* get_country_indicators folds the concatenation of the lists fetched for
\* its indicator codes, in arrival order: results[indicator][country][date]
\* is the value of the first record of that indicator, country and date, and
\* results has no other entry.
C1_Fold ==
    Succeeded("get_country_indicators") =>
        LET results == result.val[1]
            data == response_data
        IN /\ data = Flatten([i \in 1..Len(call.indicator_codes) |-> Flatten(server)])
           /\ \A n \in 1..Len(data) :
                 LET d == data[n]
                     first == CHOOSE m \in 1..n :
                                 /\ SameSeries(data[m], d)
                                 /\ \A j \in 1..(m - 1) : ~SameSeries(data[j], d)
                 IN /\ d.indicator.id \in DOMAIN results
                    /\ d.country.id \in DOMAIN results[d.indicator.id]
                    /\ d.date \in DOMAIN results[d.indicator.id][d.country.id]
                    /\ results[d.indicator.id][d.country.id][d.date] = data[first].value
           /\ \A i \in DOMAIN results : \A c \in DOMAIN results[i] : \A t \in DOMAIN results[i][c] :
                 \E n \in 1..Len(data) :
                    /\ data[n].indicator.id = i
                    /\ data[n].country.id = c
                    /\ data[n].date = t

\* two records of one series with different values have been folded
C1_Witness ==
    /\ Succeeded("get_country_indicators")
    /\ \E n, m \in 1..Len(response_data) :
          /\ n < m
          /\ SameSeries(response_data[n], response_data[m])
          /\ response_data[n].value # response_data[m].value
          /\ \A j \in 1..(n - 1) : ~SameSeries(response_data[j], response_data[n])
          /\ result.val[1][response_data[n].indicator.id][response_data[n].country.id]
                [response_data[n].date] = response_data[n].value

\* the example of the specification
C1_Example ==
    (/\ Succeeded("get_country_indicators")
     /\ response_data =
          <<DataPoint(<<"U", "S">>, <<"U", "n", "i", "t", "e", "d", " ", "S", "t", "a", "t", "e", "s">>, <<"S", "P", ".", "P", "O", "P", ".", "T", "O", "T", "L">>, <<"P", "o", "p", "u", "l", "a", "t", "i", "o", "n">>, <<"2", "0", "2", "0">>, 331000000),
            DataPoint(<<"G", "B">>, <<"U", "n", "i", "t", "e", "d", " ", "K", "i", "n", "g", "d", "o", "m">>, <<"S", "P", ".", "P", "O", "P", ".", "T", "O", "T", "L">>, <<"P", "o", "p", "u", "l", "a", "t", "i", "o", "n">>, <<"2", "0", "2", "0">>, 67000000)>>)
    => /\ DOMAIN result.val[1] = {<<"S", "P", ".", "P", "O", "P", ".", "T", "O", "T", "L">>}
       /\ DOMAIN result.val[1][<<"S", "P", ".", "P", "O", "P", ".", "T", "O", "T", "L">>] = {<<"U", "S">>, <<"G", "B">>}
       /\ DOMAIN result.val[1][<<"S", "P", ".", "P", "O", "P", ".", "T", "O", "T", "L">>][<<"U", "S">>] = {<<"2", "0", "2", "0">>}
       /\ result.val[1][<<"S", "P", ".", "P", "O", "P", ".", "T", "O", "T", "L">>][<<"U", "S">>][<<"2", "0", "2", "0">>] = 331000000
       /\ DOMAIN result.val[1][<<"S", "P", ".", "P", "O", "P", ".", "T", "O", "T", "L">>][<<"G", "B">>] = {<<"2", "0", "2", "0">>}
       /\ result.val[1][<<"S", "P", ".", "P", "O", "P", ".", "T", "O", "T", "L">>][<<"G", "B">>][<<"2", "0", "2", "0">>] = 67000000

\* C1: the fold keeps the first value of every series, and the
\* specification's example gives the mapping the specification states.
C1_FirstPointWins == C1_Fold /\ C1_Example

\* the records the metadata client fetched that carry response key k
WithKey(k) == {n \in 1..Len(retval) : retval[n][call.response_key] = k}
FetchedKeys == {retval[n][call.response_key] : n \in 1..Len(retval)}
Min(S) == CHOOSE x \in S : \A y \in S : x <= y
Max(S) == CHOOSE x \in S : \A y \in S : x >= y

\* C2 as stated: the metadata client's mapping holds, under a response key
\* that two or more fetched records carry, the first of them.
C2_FirstRecordWins ==
    \A op \in MetadataCalls :
        Succeeded(op) =>
            \A k \in FetchedKeys :
                k \in DOMAIN result.val => result.val[k] = retval[Min(WithKey(k))]

\* C2 as amended: under a response key that two or more fetched records
\* carry, the mapping holds the last of them; without a match filter every
\* fetched key is in the mapping, and no other key ever is.
C2_LastRecordWins ==
    \A op \in MetadataCalls :
        Succeeded(op) =>
            /\ \A k \in FetchedKeys :
                  /\ k \in DOMAIN result.val => result.val[k] = retval[Max(WithKey(k))]
                  /\ call.match = PyNone => k \in DOMAIN result.val
            /\ DOMAIN result.val \subseteq FetchedKeys

\* two different records with one key were fetched, and the key is kept
C2_Witness ==
    \E op \in MetadataCalls :
        /\ Succeeded(op)
        /\ \E k \in DOMAIN result.val :
              /\ Cardinality(WithKey(k)) >= 2
              /\ retval[Min(WithKey(k))] # retval[Max(WithKey(k))]
              /\ result.val[k] = retval[Max(WithKey(k))]

RECURSIVE Offset(_, _)
\* the number of records on the pages before page i
Offset(pages, i) == IF i <= 1 THEN 0 ELSE Offset(pages, i - 1) + Len(pages[i - 1])

\* C3: what the outermost call of the paginated fetcher returns is the pages'
\* contents one after the other in page order: as long as all of them
\* together, with page i at the place the pages before it leave.
C3_PagesInOrder ==
    (pc = "return" /\ stack = <<>>) =>
        /\ Len(retval) = Offset(server, Len(server) + 1)
        /\ \A i \in 1..Len(server) :
              SubSeq(retval, Offset(server, i) + 1, Offset(server, i + 1)) = server[i]

\* three pages have been fetched and put together
C3_Witness ==
    /\ pc = "return"
    /\ stack = <<>>
    /\ Len(server) = 3
    /\ served = 3
    /\ Len(retval) = 3
    /\ retval[1] # retval[2]

\* C4: with a topic option and a source option in the bag, in any
\* letter-casing, the URL builder raises and produces no URL; a client call
\* given such a bag raises without a request.
C4_TopicAndSourceConflict ==
    /\ (/\ Done("_generate_indicators_url")
        /\ Named(call.kwargs, <<"t", "o", "p", "i", "c">>) # {}
        /\ Named(call.kwargs, <<"s", "o", "u", "r", "c", "e">>) # {})
       => result = Raised("AssertionError")
    /\ (/\ pc = "done"
        /\ call.op \in MetadataCalls \cup {"get_country_indicators"}
        /\ Named(call.kwargs, <<"t", "o", "p", "i", "c">>) # {}
        /\ Named(call.kwargs, <<"s", "o", "u", "r", "c", "e">>) # {})
       => (result.err # "" /\ result.val = <<>> /\ requests = <<>>)

\* a bag whose topic is spelled Topic, and a source
C4_Witness ==
    /\ Done("_generate_indicators_url")
    /\ <<"T", "o", "p", "i", "c">> \in DOMAIN call.kwargs
    /\ Named(call.kwargs, <<"s", "o", "u", "r", "c", "e">>) # {}
    /\ result = Raised("AssertionError")

\* C5: every URL produced has format=json and per_page=10000 in its query
\* string, and no other value for format or per_page.
C5_FixedOptions ==
    \A u \in UrlsProduced :
        /\ <<"f", "o", "r", "m", "a", "t", "=", "j", "s", "o", "n">> \in Params(u)
        /\ <<"p", "e", "r", "_", "p", "a", "g", "e", "=", "1", "0", "0", "0", "0">> \in Params(u)
        /\ \A q \in Params(u) :
              /\ startswith(q, <<"f", "o", "r", "m", "a", "t", "=">>) => q = <<"f", "o", "r", "m", "a", "t", "=", "j", "s", "o", "n">>
              /\ startswith(q, <<"p", "e", "r", "_", "p", "a", "g", "e", "=">>) => q = <<"p", "e", "r", "_", "p", "a", "g", "e", "=", "1", "0", "0", "0", "0">>

\* the caller gave its own format or per_page
C5_Witness ==
    /\ Succeeded("_generate_indicators_url")
    /\ Named(call.kwargs, <<"f", "o", "r", "m", "a", "t">>) \cup Named(call.kwargs, <<"p", "e", "r", "_", "p", "a", "g", "e">>) # {}
    /\ <<"P", "e", "r", "_", "P", "a", "g", "e">> \in DOMAIN call.kwargs
    /\ <<"p", "e", "r", "_", "p", "a", "g", "e", "=", "1", "0", "0", "0", "0">> \in Params(result.val)

\* C6: the URL built from a bag with neither mrv nor date has mrv=1 in its
\* query string.
C6_DefaultMrv ==
    /\ (/\ Succeeded("_generate_indicators_url")
        /\ Named(call.kwargs, <<"m", "r", "v">>) = {}
        /\ Named(call.kwargs, <<"d", "a", "t", "e">>) = {})
       => <<"m", "r", "v", "=", "1">> \in Params(result.val)
    /\ (/\ pc = "done"
        /\ call.op \in MetadataCalls \cup {"get_country_indicators"}
        /\ Named(call.kwargs, <<"m", "r", "v">>) = {}
        /\ Named(call.kwargs, <<"d", "a", "t", "e">>) = {})
       => \A u \in Range(requests) : <<"m", "r", "v", "=", "1">> \in Params(u)

C6_Witness ==
    /\ Succeeded("_generate_indicators_url")
    /\ DOMAIN call.kwargs = {<<"l", "a", "n", "g", "u", "a", "g", "e">>}
    /\ <<"m", "r", "v", "=", "1">> \in Params(result.val)

\* the path parts the bag's language, topic and source values give
LanguageParts(bag) == {py_str(bag[k]) : k \in Named(bag, <<"l", "a", "n", "g", "u", "a", "g", "e">>)}
TopicParts(bag) == {<<"/", "t", "o", "p", "i", "c", "/">> \o py_str(bag[k]) \o <<"/">> : k \in Named(bag, <<"t", "o", "p", "i", "c">>)}
SourceParts(bag) == {<<"/", "s", "o", "u", "r", "c", "e", "/">> \o py_str(bag[k]) \o <<"/">> : k \in Named(bag, <<"s", "o", "u", "r", "c", "e">>)}

\* C7: with a language L and a topic T (or a source S) the URL is
\* base_url + L + "/topic/" + T + "/" + p (or "/source/" + S + "/") followed
\* by a query string that has no language, topic or source parameter.
C7_LanguageOutermost ==
    (/\ Succeeded("_generate_indicators_url")
     /\ Named(call.kwargs, <<"l", "a", "n", "g", "u", "a", "g", "e">>) # {}
     /\ Named(call.kwargs, <<"t", "o", "p", "i", "c">>) \cup Named(call.kwargs, <<"s", "o", "u", "r", "c", "e">>) # {})
    => \E L \in LanguageParts(call.kwargs),
          T \in TopicParts(call.kwargs) \cup SourceParts(call.kwargs) :
          LET path == base_url \o L \o T \o call.rest_url
          IN /\ startswith(result.val, path)
             /\ \A q \in Range(split(SubSeq(result.val, Len(path) + 1, Len(result.val)), "&")) :
                   /\ ~startswith(q, <<"l", "a", "n", "g", "u", "a", "g", "e", "=">>)
                   /\ ~startswith(q, <<"t", "o", "p", "i", "c", "=">>)
                   /\ ~startswith(q, <<"s", "o", "u", "r", "c", "e", "=">>)

\* the example of the specification: {language: "fr", topic: 5} and indicator?
C7_Witness ==
    /\ Succeeded("_generate_indicators_url")
    /\ call.rest_url = <<"i", "n", "d", "i", "c", "a", "t", "o", "r", "?">>
    /\ DOMAIN call.kwargs = {<<"l", "a", "n", "g", "u", "a", "g", "e">>, <<"t", "o", "p", "i", "c">>}
    /\ startswith(result.val, <<"h", "t", "t", "p", ":", "/", "/", "a", "p", "i", ".", "w", "o", "r", "l", "d", "b", "a", "n", "k", ".", "o", "r", "g", "/", "f", "r", "/", "t", "o", "p", "i", "c", "/", "5", "/", "i", "n", "d", "i", "c", "a", "t", "o", "r", "?">>)

InstrumentalCalls == {"get_precip_instrumental", "get_temp_instrumental"}
ModelledCalls == {"get_precip_modelled", "get_temp_modelled", "get_derived_stat"}

\* the countries a location names, as a 2- or 3-letter code in any casing
CountryOf(loc) ==
    IF loc.t # "str" THEN {}
    ELSE {c \in Countries : upper(loc.s) \in {c.alpha2, c.alpha3}}

Alpha2Codes == {PyStr(c.alpha2) : c \in Countries}

\* the keys at the location level of a finished Climate call's mapping
LocationKeys ==
    IF call.op \in InstrumentalCalls THEN DOMAIN result.val
    ELSE UNION {DOMAIN result.val[g] : g \in DOMAIN result.val}

Alpha3s(codes) ==
    [i \in 1..Len(codes) |-> (CHOOSE c \in CountryOf(codes[i]) : TRUE).alpha3]

Recognized(codes) ==
    /\ codes.t = "list"
    /\ Len(codes.l) > 0
    /\ \A i \in 1..Len(codes.l) : CountryOf(codes.l[i]) # {}

NoConflict(bag) == Named(bag, <<"t", "o", "p", "i", "c">>) = {} \/ Named(bag, <<"s", "o", "u", "r", "c", "e">>) = {}

\* C9, for get_country_indicators and the Climate calls: the recognized codes
\* of the list are in the path of the requests in their 3-letter form.
C9_Alpha3InUrl_OtherCalls ==
    /\ (/\ pc = "done"
        /\ call.op = "get_country_indicators"
        /\ Recognized(call.country_codes)
        /\ NoConflict(call.kwargs))
       => /\ result.err = ""
          /\ Len(requests) >= Len(call.indicator_codes)
          /\ \A u \in Range(requests) :
                contains(u, <<"/", "c", "o", "u", "n", "t", "r", "i", "e", "s", "/">> \o join(<<";">>, Alpha3s(call.country_codes.l))
                               \o <<"/", "i", "n", "d", "i", "c", "a", "t", "o", "r", "s", "/">>)
    /\ \A op \in InstrumentalCalls \cup ModelledCalls :
          (Done(op) /\ \A i \in 1..Len(call.locations) :
                          int_outcome(_convert_to_alpha3(call.locations[i])) # "TypeError")
          => \A i \in 1..Len(call.locations) :
                \A c \in CountryOf(call.locations[i]) :
                   \E u \in Range(requests) : contains(u, <<"/">> \o c.alpha3 \o <<".", "j", "s", "o", "n">>)

\* C9: a public call given a non-empty list of recognized country codes makes
\* its request with the 3-letter codes in the path; get_countries requests
\* country/<codes joined by ;> and returns a mapping keyed by iso2Code.
C9_Alpha3InUrl ==
    /\ C9_Alpha3InUrl_OtherCalls
    /\ (/\ Done("get_countries")
        /\ Recognized(call.api_ids)
        /\ NoConflict(call.kwargs))
       => /\ result.err = ""
          /\ requests # <<>>
          /\ contains(requests[1], <<"c", "o", "u", "n", "t", "r", "y", "/">> \o join(<<";">>, Alpha3s(call.api_ids.l)) \o <<"?">>)
          /\ \A k \in DOMAIN result.val : result.val[k][<<"i", "s", "o", "2", "C", "o", "d", "e">>] = k

\* the observations of the response that carry period key p
WithPeriod(p) ==
    {n \in 1..Len(server) :
        p = IF call.interval = <<"m", "o", "n", "t", "h">> THEN server[n].month + 1 ELSE server[n].year}

\* C10: with interval = month the period keys of each location are the
\* observations' months plus one, so 1 for month 0 and within 1..12; with
\* another interval they are the observations' years.
C10_MonthKeys ==
    \A op \in InstrumentalCalls :
        Succeeded(op) =>
            \A k \in DOMAIN result.val :
                /\ DOMAIN result.val[k] =
                      IF call.interval = <<"m", "o", "n", "t", "h">>
                      THEN {server[n].month + 1 : n \in 1..Len(server)}
                      ELSE {server[n].year : n \in 1..Len(server)}
                /\ call.interval = <<"m", "o", "n", "t", "h">> => DOMAIN result.val[k] \subseteq 1..12
                /\ \A p \in DOMAIN result.val[k] :
                      result.val[k][p] = server[Max(WithPeriod(p))].data

\* an observation of month 0 is stored under key 1
C10_Witness ==
    \E op \in InstrumentalCalls :
        /\ Succeeded(op)
        /\ call.interval = <<"m", "o", "n", "t", "h">>
        /\ \E n \in 1..Len(server) : server[n].month = 0
        /\ \E k \in DOMAIN result.val :
              /\ 1 \in DOMAIN result.val[k]
              /\ 0 \notin DOMAIN result.val[k]

\* the var and the ensemble_percentile a public modelled call hands to
\* _get_modelled
ModelledVar ==
    IF call.op = "get_precip_modelled" THEN <<"p", "r">>
    ELSE IF call.op = "get_temp_modelled" THEN <<"t", "a", "s">>
    ELSE call.stat

HandedPercentile ==
    IF call.op = "get_derived_stat" THEN call.ensemble_percentile ELSE PyNone

EnsembleMode == call.gcm.t = "str" /\ lower(call.gcm.s) = <<"e", "n", "s", "e", "m", "b", "l", "e">>

ScenarioGiven == call.sres.t = "str" /\ Len(call.sres.s) > 0

\* what the finished call returns when it is made without a scenario: the
\* mapping before the scenario filter
BeforeScenarioFilter ==
    _get_modelled(ModelledVar, call.data_type, call.locations, call.gcm, PyNone,
                  HandedPercentile, server).val

\* C11: when a scenario is given, in both modes, no (year, scenario') key of
\* the returned mapping has a scenario' that differs from the scenario once
\* both are lower-cased, and every plain-year key the mapping had before the
\* scenario filter is still there with its value.
C11_ScenarioFilter ==
    \A op \in ModelledCalls :
        (Succeeded(op) /\ ScenarioGiven) =>
            LET before == BeforeScenarioFilter
            IN /\ DOMAIN result.val = DOMAIN before
               /\ \A g \in DOMAIN result.val :
                     /\ DOMAIN result.val[g] = DOMAIN before[g]
                     /\ \A loc \in DOMAIN result.val[g] :
                           /\ \A k \in DOMAIN result.val[g][loc] :
                                 k.tuple => lower(k.scenario) = lower(call.sres.s)
                           /\ \A k \in DOMAIN before[g][loc] :
                                 ~k.tuple =>
                                    /\ k \in DOMAIN result.val[g][loc]
                                    /\ result.val[g][loc][k] = before[g][loc][k]

\* an ensemble call with scenario A2 whose response has a past value and a
\* value of scenario b1: the year stays and the b1 key is gone
C11_Witness ==
    /\ Succeeded("get_derived_stat")
    /\ call.sres = PyStr(<<"A", "2">>)
    /\ LET before == BeforeScenarioFilter
       IN \E g \in DOMAIN result.val :
             \E loc \in DOMAIN result.val[g] :
                /\ Year(1920) \in DOMAIN result.val[g][loc]
                /\ YearScenario(2020, <<"b", "1">>) \in DOMAIN before[g][loc]
                /\ YearScenario(2020, <<"b", "1">>) \notin DOMAIN result.val[g][loc]

\* a GCM call with scenario A2: the a2 key stays, whatever its letter-casing
C11_WitnessGcm ==
    /\ Succeeded("get_temp_modelled")
    /\ ~EnsembleMode
    /\ call.sres = PyStr(<<"A", "2">>)
    /\ \E g \in DOMAIN result.val :
          \E loc \in DOMAIN result.val[g] :
             YearScenario(2020, <<"a", "2">>) \in DOMAIN result.val[g][loc]


\* every location is a basin id or a string that int() rejects with
\* ValueError, so that the requests are made
LocationsAccepted ==
    \A i \in 1..Len(call.locations) :
        int_outcome(_convert_to_alpha3(call.locations[i])) # "TypeError"

PercentilesGiven ==
    call.ensemble_percentile.t = "list" /\ Len(call.ensemble_percentile.l) > 0

\* the model keys of the response's records
FetchedModelKeys == {<<<<"e", "n", "s", "e", "m", "b", "l", "e">>, server[n].percentile>> : n \in 1..Len(server)}

AllowedModelKeys ==
    {k \in FetchedModelKeys :
        \E i \in 1..Len(call.ensemble_percentile.l) :
            call.ensemble_percentile.l[i] = PyInt(k[2])}

\* C12 as stated: an ensemble call given a percentile allow-list returns a
\* mapping whose model keys are the fetched model keys whose percentile is in
\* the list.
C12_PercentileAllowList ==
    \A op \in ModelledCalls :
        (Done(op) /\ EnsembleMode /\ PercentilesGiven /\ LocationsAccepted) =>
            /\ result.err = ""
            /\ DOMAIN result.val = AllowedModelKeys

\* What the calls do with the allow-list: get_precip_modelled and
\* get_temp_modelled ignore it and return every fetched model key, and
\* get_derived_stat raises NameError unless nothing was fetched.
C12_AllowListIgnoredOrNameError ==
    \A op \in ModelledCalls :
        (Done(op) /\ EnsembleMode /\ PercentilesGiven /\ LocationsAccepted) =>
            IF op = "get_derived_stat"
            THEN IF Len(server) > 0 THEN result = Raised("NameError")
                 ELSE result = Returned(<<>>)
            ELSE /\ result.err = ""
                 /\ DOMAIN result.val = FetchedModelKeys

\* get_precip_modelled in ensemble mode with the allow-list [50] returns
\* the model key of percentile 10
C12_IgnoredReached ==
    /\ Succeeded("get_precip_modelled")
    /\ EnsembleMode
    /\ call.ensemble_percentile = PyList(<<PyInt(50)>>)
    /\ <<<<"e", "n", "s", "e", "m", "b", "l", "e">>, 10>> \in DOMAIN result.val


\* the segments of a request's path below the base url
PathSegments(u) ==
    split(SubSeq(u, Len(climate_base_url) + 1, Len(u)), "/")

\* the API's name of each shorthand
ApiDataType(data_type) ==
    CASE data_type = <<"a", "a", "v", "g">> -> <<"a", "n", "n", "u", "a", "l", "a", "v", "g">>
      [] data_type = <<"a", "a", "n", "o", "m">> -> <<"a", "n", "n", "u", "a", "l", "a", "n", "o", "m">>
      [] data_type = <<"m", "a", "v", "g">> -> <<"m", "a", "v", "g">>
      [] data_type = <<"m", "a", "n", "o", "m">> -> <<"m", "a", "n", "o", "m">>

\* C13: in every request of a modelled call, in both modes, the dataType
\* segment of the path is the shorthand with its leading a replaced by
\* annual (annualavg, annualanom), and an m-form (mavg, manom) as given; a
\* call whose locations are accepted makes requests.
C13_DataTypeInPath ==
    \A op \in ModelledCalls :
        Done(op) =>
            /\ LocationsAccepted => requests # <<>>
            /\ \A i \in 1..Len(requests) :
                  /\ startswith(requests[i], climate_base_url)
                  /\ PathSegments(requests[i])[3] = ApiDataType(call.data_type)

\* an ensemble call with aavg and two locations: a request for each of the
\* eight windows and each location, annualavg in each
C13_Witness ==
    /\ Done("get_precip_modelled")
    /\ EnsembleMode
    /\ call.data_type = <<"a", "a", "v", "g">>
    /\ Len(call.locations) = 2
    /\ Len(requests) = 16
    /\ \A i \in 1..Len(requests) : PathSegments(requests[i])[3] = <<"a", "n", "n", "u", "a", "l", "a", "v", "g">>


FetcherCalls ==
    MetadataCalls \cup {"get_country_indicators", "_get_api_response_as_json"}

\* the requests of the fetcher's current run: the last `served` ones
RunRequest(j) == requests[Len(requests) - served + j]

\* C14, the count and the urls: against a server of k pages the fetcher never
\* fetches more than k times, a follow-up is pending exactly while the last
\* response had page < pages, it returns only after the response with
\* page = pages, which is fetch k, and the request for page j + 1 is the url
\* of the invocation that read page j with "&page=" and j + 1 appended.
C14_ExactlyKFetches ==
    call.op \in FetcherCalls =>
        /\ served <= Len(server)
        /\ Len(requests) >= served
        /\ pc = "fetch" => (served < Len(server) /\ Len(stack) = served)
        /\ pc = "return" => served = Len(server)
        /\ pc \in {"fetch", "return"} =>
              \A j \in 1..(served - 1) :
                  RunRequest(j + 1) = RunRequest(j) \o <<"&", "p", "a", "g", "e", "=">> \o int_to_str(j + 1)
        /\ (pc = "done" /\ call.op \notin {"get_country_indicators", "get_countries"}
               /\ result.err = "") =>
              Len(requests) = Len(server)

\* C14: the paginated fetcher terminates after exactly k fetches.
C14_FetcherTerminates ==
    /\ []C14_ExactlyKFetches
    /\ (pc = "fetch") ~> (pc = "return" /\ served = Len(server))

\* three pages have been fetched with three urls, the third with both
\* page parameters
C14_Witness ==
    /\ Succeeded("_get_api_response_as_json")
    /\ Len(server) = 3
    /\ Len(requests) = 3
    /\ requests[3] = requests[1] \o <<"&", "p", "a", "g", "e", "=", "2", "&", "p", "a", "g", "e", "=", "3">>


\* the windows of the climate variables and of the derived statistics
ClimateWindows ==
    {<<1920, 1939>>, <<1940, 1959>>, <<1960, 1979>>, <<1980, 1999>>,
     <<2020, 2039>>, <<2040, 2059>>, <<2060, 2079>>, <<2080, 2099>>}

StatWindows == {<<1961, 2000>>, <<2046, 2065>>, <<2081, 2100>>}

EnsembleWindows ==
    IF ModelledVar \in {<<"p", "r">>, <<"t", "a", "s">>} THEN ClimateWindows ELSE StatWindows

\* a location that parses as an integer: a number, or a string of digits
ParsesAsInteger(loc) ==
    \/ loc.t = "int"
    \/ loc.t = "str" /\ Len(loc.s) > 0 /\ \A i \in 1..Len(loc.s) : loc.s[i] \in Range(DigitChars)

\* v1/{basin|country}/{dataType}/ensemble/{variable}/{start}/{end}/{location}.json
EnsembleRequest(w, loc) ==
    climate_base_url \o
    join(<<"/">>, <<<<"v", "1">>,
                 IF ParsesAsInteger(loc) THEN <<"b", "a", "s", "i", "n">> ELSE <<"c", "o", "u", "n", "t", "r", "y">>,
                 ApiDataType(call.data_type), <<"e", "n", "s", "e", "m", "b", "l", "e">>, ModelledVar,
                 int_to_str(w[1]), int_to_str(w[2]),
                 py_str(_convert_to_alpha3(loc)) \o <<".", "j", "s", "o", "n">>>>)

C15_WitnessClimate ==
    /\ Done("get_temp_modelled")
    /\ EnsembleMode
    /\ Len(call.locations) = 1
    /\ Len(requests) = 8


====
